---- MODULE Spec2Model ----
(***************************************************************************)
(* Verification model of the remote (driver-backed) job queue of curator's *)
(* vendored amboy: remoteUnordered.Next, run by the slots of worker pools  *)
(* on several queue instances that share one Driver.                       *)
(*                                                                         *)
(* Next is translated statement by statement from queue/remote.go.  The    *)
(* Driver, the loop that feeds the candidate channel and the worker pool   *)
(* are not part of the sources at hand; they follow the contracts of the   *)
(* design document (sections 4.2, 4.3 and 4.4).                            *)
(*                                                                         *)
(* The collaborators of the queue are modelled beside it, each under its   *)
(* own specification: jasper's file helpers (SpecFiles) and the Debian     *)
(* repository job's rebuildRepo (SpecRebuild) and createArchDirs           *)
(* (SpecArchDirs), and the poplar gRPC command's action (SpecPoplar).      *)
(***************************************************************************)
EXTENDS Integers, Sequences, FiniteSets, TLC

\* ------------------------------------------------------------------ bounds
NumWorkers == 2
NumJobs == 2
NumQueues == 2
ChanCap == 1
NumDirs == 2
MaxParts == 6
NumArchs == 2

Workers == 1..NumWorkers
JobIDs == 1..NumJobs
Queues == 1..NumQueues

\* The queue instance worker w pulls from.
QueueOf(w) == ((w - 1) % NumQueues) + 1

\* ------------------------------------------------------------- data model
\* The nil amboy.Job (also: no record under an ID).
NoJob == [id |-> 0, completed |-> FALSE, inProgress |-> FALSE, modCount |-> 0]

\* A job as a producer hands it to Put: nothing done yet, ModificationCount 0.
NewJob(j) == [id |-> j, completed |-> FALSE, inProgress |-> FALSE, modCount |-> 0]

\* Eligible job: stored, not completed and not currently locked.
Eligible(st, lk, j) == st[j] # NoJob /\ ~st[j].completed /\ j \notin lk

\* -------------------------------------------------------- Driver contract
\* Lock(job): AlreadyLocked when the ID is locked; io = FALSE is a backend failure.
DriverLock(st, lk, job, io) ==
    IF job = NoJob \/ job.id \in lk \/ ~io
    THEN [ok |-> FALSE, store |-> st, locked |-> lk]
    ELSE [ok |-> TRUE, store |-> st, locked |-> lk \cup {job.id}]

\* Get(id): the stored job, or NotFound (nil job) when absent or on a backend failure.
DriverGet(st, id, io) ==
    IF id \in DOMAIN st /\ st[id] # NoJob /\ io
    THEN [ok |-> TRUE, job |-> st[id]]
    ELSE [ok |-> FALSE, job |-> NoJob]

\* Unlock(job): releases the lock of the job's ID; no lock to release for a nil job.
DriverUnlock(st, lk, job) ==
    [store |-> st, locked |-> IF job = NoJob THEN lk ELSE lk \ {job.id}]

\* Save(job): VersionConflict unless the stored count is exactly one less.
DriverSave(st, job, io) ==
    IF job # NoJob /\ io /\ st[job.id] # NoJob /\ st[job.id].modCount + 1 = job.modCount
    THEN [ok |-> TRUE, store |-> [st EXCEPT ![job.id] = job]]
    ELSE [ok |-> FALSE, store |-> st]

\* ------------------------------------------------- remoteUnordered.Next
\* select: the cases that can proceed; Go picks any one of them.
SelectReady(isCancelled, hasCandidate) ==
    (IF isCancelled THEN {"done"} ELSE {}) \cup (IF hasCandidate THEN {"recv"} ELSE {})

\* (mutation: the Done case loops instead of returning)
OnDoneContinue == "select"

\* case <-ctx.Done(): return nil
OnDone == "exited"

\* (mutation: Next itself persists the job as in progress when it locks it)
TryLockMarkingInProgress(st, lk, job, io) ==
    LET r == DriverLock(st, lk, job, io) IN
    IF r.ok THEN [r EXCEPT !.store = [st EXCEPT ![job.id] = [st[job.id] EXCEPT !.inProgress = TRUE]]]
    ELSE r

\* err := q.driver.Lock(job)
TryLock(st, lk, job, io) == DriverLock(st, lk, job, io)

\* (mutation: the Lock error is ignored)
OnLockIgnoreErr(ok) == "get"

\* (mutation: a failed Lock is followed by the Unlock of the Get-failure path)
OnLockUnlocksOnError(ok) == IF ok THEN "get" ELSE "unlock"

\* (mutation: a failed Lock ends the call with nil instead of retrying)
OnLockReturnNil(ok) == IF ok THEN "get" ELSE "exited"

\* if err != nil { continue }
OnLock(ok) == IF ok THEN "get" ELSE "select"

\* job, err = q.driver.Get(job.ID()): the local job is overwritten by the result.
Rehydrate(st, job, io) == DriverGet(st, job.id, io)

\* if err != nil { Unlock; continue }
OnGet(ok) == IF ok THEN "run" ELSE "unlock"

\* q.driver.Unlock(job): job is by now what Get returned, not the candidate.
UnlockAfterGetFailure(st, lk, candidate, job) == DriverUnlock(st, lk, job)

\* (mutation: the copy taken from the channel is returned)
DispatchedCandidate(candidate, job) == candidate

\* return job
Dispatched(candidate, job) == job

\* ------------------------------------------------------------------ state
VARIABLES
    store,            \* Driver: ID -> stored job (NoJob when absent)
    locked,           \* Driver: the IDs whose lock is taken
    channel,          \* per queue instance: the buffered candidate channel
    cancelled,        \* the shared context is cancelled
    pc,               \* per worker: position in the slot loop / in Next
    recvd,            \* per worker: the candidate received from the channel
    job,              \* per worker: Next's local variable job
    result,           \* per worker: what the last Next call returned
    calls,            \* per worker: Driver calls of the current loop iteration of Next
    blockedAtCancel,  \* per worker: was parked in select when the context was cancelled
    fs,               \* one call of a jasper file helper: inputs, position, effects
    rb,               \* the rebuildRepo goroutines of one BuildDEBRepoJob
    ad,               \* one call of createArchDirs: position, filesystem calls, catcher
    gr                \* the poplar gRPC action: main, its three goroutines, the context

\* The state of the queue itself.
queueVars == <<store, locked, channel, cancelled, pc, recvd, job, result, calls, blockedAtCancel>>

\* The state of the queue's collaborators; no step of the queue touches it.
extVars == <<fs, rb, ad, gr>>

vars == <<store, locked, channel, cancelled, pc, recvd, job, result, calls, blockedAtCancel, fs, rb, ad, gr>>

\* The working directories rebuildRepo is started for, one goroutine each.
Dirs == 1..NumDirs

\* dirParts[len(dirParts)-5:]: the number of trailing path components kept.
PathTail == 5

\* No file helper is being called.
FsIdle == [pc |-> "idle", op |-> "none", stat |-> "dir", mkdirOK |-> TRUE, createOK |-> TRUE,
           copyOK |-> TRUE, ret |-> "none", dirMade |-> FALSE, fileCreated |-> FALSE]

\* No rebuildRepo goroutine has been started.
RbIdle == [pc |-> [g \in Dirs |-> "idle"],
           parts |-> [g \in Dirs |-> PathTail],
           trace |-> [g \in Dirs |-> <<>>],
           failedAt |-> [g \in Dirs |-> "none"],
           errs |-> [g \in Dirs |-> 0],
           wgDone |-> [g \in Dirs |-> 0],
           mutex |-> 0,
           output |-> {}]

\* createArchDirs is not being called.
AdIdle == [pc |-> "idle", i |-> 0, log |-> <<>>, errors |-> 0, ret |-> "none"]

\* The poplar gRPC action has not been entered.
GrIdle == [pc |-> "idle", ret |-> "none", listening |-> FALSE, created |-> FALSE,
           cancelled |-> FALSE, sig |-> "none", serve |-> "none", waiter |-> "none",
           stopCalled |-> FALSE, stopPanicked |-> FALSE, waitClosed |-> FALSE,
           serveLogged |-> FALSE]

\* The collaborators at rest.
ExtIdle == fs = FsIdle /\ rb = RbIdle /\ ad = AdIdle /\ gr = GrIdle

Call(op, id, ok) == [op |-> op, id |-> id, ok |-> ok]

QueueInit ==
    /\ store = [j \in JobIDs |-> NoJob]
    /\ locked = {}
    /\ channel = [q \in Queues |-> <<>>]
    /\ cancelled = FALSE
    /\ pc = [w \in Workers |-> "select"]
    /\ recvd = [w \in Workers |-> NoJob]
    /\ job = [w \in Workers |-> NoJob]
    /\ result = [w \in Workers |-> NoJob]
    /\ calls = [w \in Workers |-> <<>>]
    /\ blockedAtCancel = [w \in Workers |-> FALSE]

Init == QueueInit /\ ExtIdle

\* --------------------------------------------------- producer and feed
\* Queue.Put: DuplicateJob when the ID is known, else Driver.Put.
Put(j) ==
    /\ store[j] = NoJob
    /\ store' = [store EXCEPT ![j] = NewJob(j)]
    /\ UNCHANGED <<locked, channel, cancelled, pc, recvd, job, result, calls, blockedAtCancel>>
    /\ UNCHANGED extVars

\* The dispatch loop sends an eligible job to a receiver parked in select.
FeedHandoff(q, j) ==
    /\ Eligible(store, locked, j)
    /\ \E w \in Workers :
        /\ QueueOf(w) = q
        /\ pc[w] = "blocked"
        /\ pc' = [pc EXCEPT ![w] = "lock"]
        /\ recvd' = [recvd EXCEPT ![w] = store[j]]
        /\ job' = [job EXCEPT ![w] = store[j]]
    /\ UNCHANGED <<store, locked, channel, cancelled, result, calls, blockedAtCancel>>
    /\ UNCHANGED extVars

\* The dispatch loop buffers an eligible job when no receiver is parked.
FeedBuffer(q, j) ==
    /\ Eligible(store, locked, j)
    /\ \A w \in Workers : QueueOf(w) = q => pc[w] # "blocked"
    /\ Len(channel[q]) < ChanCap
    /\ channel' = [channel EXCEPT ![q] = Append(@, store[j])]
    /\ UNCHANGED <<store, locked, cancelled, pc, recvd, job, result, calls, blockedAtCancel>>
    /\ UNCHANGED extVars

\* The shared context is cancelled: every parked select proceeds with <-ctx.Done().
Cancel ==
    /\ ~cancelled
    /\ cancelled' = TRUE
    /\ pc' = [w \in Workers |-> IF pc[w] = "blocked" THEN "woken" ELSE pc[w]]
    /\ blockedAtCancel' = [w \in Workers |-> pc[w] = "blocked"]
    /\ UNCHANGED <<store, locked, channel, recvd, job, result, calls>>
    /\ UNCHANGED extVars

\* ------------------------------------------------------------------- Next
\* select finds a case that can proceed and takes it.
NextSelect(w) ==
    /\ pc[w] = "select"
    /\ \E c \in SelectReady(cancelled, channel[QueueOf(w)] # <<>>) :
        \/ /\ c = "done"
           /\ pc' = [pc EXCEPT ![w] = "woken"]
           /\ UNCHANGED <<channel, recvd, job>>
        \/ /\ c = "recv"
           /\ pc' = [pc EXCEPT ![w] = "lock"]
           /\ recvd' = [recvd EXCEPT ![w] = Head(channel[QueueOf(w)])]
           /\ job' = [job EXCEPT ![w] = Head(channel[QueueOf(w)])]
           /\ channel' = [channel EXCEPT ![QueueOf(w)] = Tail(@)]
    /\ calls' = [calls EXCEPT ![w] = <<>>]
    /\ UNCHANGED <<store, locked, cancelled, result, blockedAtCancel>>
    /\ UNCHANGED extVars

\* select finds no case that can proceed and parks the goroutine.
NextPark(w) ==
    /\ pc[w] = "select"
    /\ SelectReady(cancelled, channel[QueueOf(w)] # <<>>) = {}
    /\ pc' = [pc EXCEPT ![w] = "blocked"]
    /\ calls' = [calls EXCEPT ![w] = <<>>]
    /\ UNCHANGED <<store, locked, channel, cancelled, recvd, job, result, blockedAtCancel>>
    /\ UNCHANGED extVars

\* case <-ctx.Done(): return nil; the pool slot exits on a nil job.
NextDone(w) ==
    /\ pc[w] = "woken"
    /\ pc' = [pc EXCEPT ![w] = OnDone]
    /\ result' = [result EXCEPT ![w] = NoJob]
    /\ UNCHANGED <<store, locked, channel, cancelled, recvd, job, calls, blockedAtCancel>>
    /\ UNCHANGED extVars

\* err := q.driver.Lock(job); if err != nil { continue }
NextLock(w) ==
    /\ pc[w] = "lock"
    /\ \E io \in BOOLEAN :
        LET r == TryLock(store, locked, job[w], io) IN
        /\ store' = r.store
        /\ locked' = r.locked
        /\ pc' = [pc EXCEPT ![w] = OnLock(r.ok)]
        /\ calls' = [calls EXCEPT ![w] = Append(@, Call("Lock", job[w].id, r.ok))]
        /\ recvd' = [recvd EXCEPT ![w] = IF OnLock(r.ok) = "select" THEN NoJob ELSE @]
        /\ job' = [job EXCEPT ![w] = IF OnLock(r.ok) = "select" THEN NoJob ELSE @]
    /\ UNCHANGED <<channel, cancelled, result, blockedAtCancel>>
    /\ UNCHANGED extVars

\* job, err = q.driver.Get(job.ID()); if err != nil { ... }; return job
NextGet(w) ==
    /\ pc[w] = "get"
    /\ \E io \in BOOLEAN :
        LET r == Rehydrate(store, job[w], io) IN
        /\ pc' = [pc EXCEPT ![w] = OnGet(r.ok)]
        /\ calls' = [calls EXCEPT ![w] = Append(@, Call("Get", job[w].id, r.ok))]
        /\ IF OnGet(r.ok) = "run"
           THEN /\ result' = [result EXCEPT ![w] = Dispatched(recvd[w], r.job)]
                /\ job' = [job EXCEPT ![w] = NoJob]
                /\ recvd' = [recvd EXCEPT ![w] = NoJob]
           ELSE /\ job' = [job EXCEPT ![w] = r.job]
                /\ UNCHANGED <<recvd, result>>
    /\ UNCHANGED <<store, locked, channel, cancelled, blockedAtCancel>>
    /\ UNCHANGED extVars

\* grip.CatchNotice(q.driver.Unlock(job)); continue
\* Unlock of the nil job either is the Driver's defensive no-op or aborts the call.
NextUnlock(w) ==
    /\ pc[w] = "unlock"
    /\ LET r == UnlockAfterGetFailure(store, locked, recvd[w], job[w]) IN
        /\ store' = r.store
        /\ locked' = r.locked
    /\ calls' = [calls EXCEPT ![w] = Append(@, Call("Unlock", job[w].id, TRUE))]
    /\ \/ pc' = [pc EXCEPT ![w] = "select"]
       \/ /\ job[w] = NoJob
          /\ pc' = [pc EXCEPT ![w] = "panicked"]
    /\ recvd' = [recvd EXCEPT ![w] = NoJob]
    /\ job' = [job EXCEPT ![w] = NoJob]
    /\ UNCHANGED <<channel, cancelled, result, blockedAtCancel>>
    /\ UNCHANGED extVars

\* ------------------------------------------------------------ worker pool
\* The slot runs the job, which ends Completed, and persists it with Driver.Save
\* (bumping ModificationCount); a failed Save is reported, not retried.
PoolRunAndSave(w) ==
    /\ pc[w] = "run"
    /\ \E io \in BOOLEAN :
        LET ran == [result[w] EXCEPT !.completed = TRUE, !.modCount = @ + 1] IN
        /\ store' = DriverSave(store, ran, io).store
        /\ result' = [result EXCEPT ![w] = ran]
    /\ pc' = [pc EXCEPT ![w] = "punlock"]
    /\ UNCHANGED <<locked, channel, cancelled, recvd, job, calls, blockedAtCancel>>
    /\ UNCHANGED extVars

\* Driver.Unlock, also after a failed Save; then the slot calls Next again.
PoolUnlock(w) ==
    /\ pc[w] = "punlock"
    /\ locked' = DriverUnlock(store, locked, result[w]).locked
    /\ pc' = [pc EXCEPT ![w] = "select"]
    /\ result' = [result EXCEPT ![w] = NoJob]
    /\ calls' = [calls EXCEPT ![w] = <<>>]
    /\ UNCHANGED <<store, channel, cancelled, recvd, job, blockedAtCancel>>
    /\ UNCHANGED extVars

\* ---------------------------------------------------------- specification
Next ==
    \/ \E j \in JobIDs : Put(j)
    \/ \E q \in Queues, j \in JobIDs : FeedHandoff(q, j)
    \/ \E q \in Queues, j \in JobIDs : FeedBuffer(q, j)
    \/ Cancel
    \/ \E w \in Workers : NextSelect(w)
    \/ \E w \in Workers : NextPark(w)
    \/ \E w \in Workers : NextDone(w)
    \/ \E w \in Workers : NextLock(w)
    \/ \E w \in Workers : NextGet(w)
    \/ \E w \in Workers : NextUnlock(w)
    \/ \E w \in Workers : PoolRunAndSave(w)
    \/ \E w \in Workers : PoolUnlock(w)

Spec == Init /\ [][Next]_vars

\* A goroutine that can run is eventually scheduled.
FairSpec == Spec /\ \A w \in Workers : WF_vars(NextDone(w))

\* ------------------------------------------------------------ properties
\* The positions of a slot inside a Next call.
InNext == {"select", "blocked", "woken", "lock", "get", "unlock"}

\* Next has returned a job to worker w, and w has not unlocked it yet.
Holding(w) == pc[w] \in {"run", "punlock"}

\* Worker w is between a successful Driver.Lock of ID j and its release.
HoldsLock(w, j) ==
    \/ pc[w] \in {"get", "unlock"} /\ recvd[w].id = j
    \/ Holding(w) /\ result[w].id = j

\* C1: mutual exclusion. No two workers, on the same or on different queue
\* instances, hold a job with the same ID at the same time.
MutualExclusion ==
    \A w1, w2 \in Workers :
        (w1 # w2 /\ Holding(w1) /\ Holding(w2)) => result[w1].id # result[w2].id

\* C1 witness: a worker holds a job while a worker of another queue instance
\* has received the same ID and is about to try its lock.
ContendedAcrossQueues ==
    \E w1, w2 \in Workers :
        /\ QueueOf(w1) # QueueOf(w2)
        /\ Holding(w1)
        /\ pc[w2] = "lock"
        /\ job[w2].id = result[w1].id

\* C2 (as claimed): a job Next has just returned is not Completed.
NeverReturnsCompleted ==
    \A w \in Workers : pc[w] = "run" => ~result[w].completed

\* C3 (as claimed): the step that ends the Get-failure path leaves the lock of
\* the candidate's ID free.
GetFailureReleasesLock ==
    [][\A w \in Workers :
        (pc[w] = "unlock" /\ pc'[w] # "unlock") => recvd[w].id \notin locked']_vars

\* C4 (as claimed): a select evaluated after the cancellation takes the Done
\* case, whatever the channel holds.
CancelledSelectReturnsNil ==
    [][\A w \in Workers :
        (pc[w] = "select" /\ cancelled /\ pc'[w] # "select") => pc'[w] = "woken"]_vars

\* C5: every worker parked in select (no candidate) when the context is
\* cancelled makes no Driver call afterwards and eventually returns nil.
CancellationLiveness ==
    /\ [](\A w \in Workers : blockedAtCancel[w] => pc[w] \in {"woken", "exited"})
    /\ \A w \in Workers : blockedAtCancel[w] ~> (pc[w] = "exited")

\* C5 witness: two workers were parked at the cancellation and both returned nil.
SeveralBlockedReturnedNil ==
    \E w1, w2 \in Workers :
        /\ w1 # w2
        /\ blockedAtCancel[w1] /\ blockedAtCancel[w2]
        /\ pc[w1] = "exited" /\ pc[w2] = "exited"

\* C6 (as claimed): no job is locked in the Driver while no worker holds it.
NoOrphanedLock ==
    \A j \in locked : \E w \in Workers : HoldsLock(w, j)

\* C7: after a failed Lock, Next is back at its wait with the candidate
\* discarded and neither Get nor Unlock called; a holder's lock stays taken.
LockFailureDiscards ==
    /\ \A w \in Workers :
        (calls[w] # <<>> /\ ~calls[w][1].ok) =>
            /\ calls[w][1].op = "Lock"
            /\ Len(calls[w]) = 1
            /\ pc[w] = "select"
            /\ job[w] = NoJob /\ recvd[w] = NoJob
    /\ \A w \in Workers : Holding(w) => result[w].id \in locked

\* C7 witness: a worker lost the race for an ID that another worker holds.
LostTheRace ==
    \E w1, w2 \in Workers :
        /\ Holding(w1)
        /\ calls[w2] = <<Call("Lock", result[w1].id, FALSE)>>
        /\ pc[w2] = "select"

\* C8: the job Next has just returned is the Driver's current record of that
\* ID, and the Driver lock of that ID is taken.
DispatchAuthoritative ==
    \A w \in Workers :
        pc[w] = "run" =>
            /\ result[w] # NoJob
            /\ result[w].id \in locked
            /\ result[w] = store[result[w].id]
            /\ calls[w] = <<Call("Lock", result[w].id, TRUE), Call("Get", result[w].id, TRUE)>>

\* C8 witness: the returned job differs from any copy the channel carried
\* (the feed only sends jobs never saved).
ReturnedFresherThanCandidate ==
    \E w \in Workers : pc[w] = "run" /\ result[w].modCount > 0

\* C9: Next returns nil only under a cancelled context; a return under a live
\* context is a job.
NilOnlyWhenCancelled ==
    /\ \A w \in Workers : pc[w] = "exited" => cancelled
    /\ \A w \in Workers : Holding(w) => result[w] # NoJob

\* C9 witness: one Next call has returned nil while another worker, whose
\* call returned a job, still holds it.
NilReturnedAfterCancel ==
    \E w1, w2 \in Workers : pc[w1] = "exited" /\ pc[w2] = "run"

\* C10: a step of a Next call leaves every stored job as it is, and changes
\* no lock but that of the candidate it handles.
NextWritesNoJobState ==
    [][\A w \in Workers :
        (pc[w] \in InNext /\ pc'[w] # pc[w]) =>
            /\ store' = store
            /\ (locked' \ locked) \cup (locked \ locked') \subseteq {job[w].id}]_vars

\* C10 witness: Next has returned a job and its stored ModificationCount is
\* still the one Put gave it.
LockedCountStillZero ==
    \E w \in Workers :
        /\ pc[w] = "run"
        /\ result[w].id \in locked
        /\ store[result[w].id].modCount = 0

\* ============================================================ file helpers
\* jasper/util.go: MakeEnclosingDirectories and WriteFile, one call at a time,
\* over every outcome of the filesystem calls they make.

\* What os.Stat can answer: no such path, another error, a file, a directory.
StatOutcomes == {"notexist", "error", "file", "dir"}

\* os.IsNotExist(err)
IsNotExist(stat) == stat = "notexist"

\* os.Stat returns a nil FileInfo together with any error.
InfoIsNil(stat) == stat \in {"notexist", "error"}

\* info, err := os.Stat(path); if os.IsNotExist(err) {...} else if !info.IsDir() {...}
\* info.IsDir() on the nil FileInfo is a nil dereference.
AfterStat(stat) ==
    IF IsNotExist(stat) THEN "mkdir"
    ELSE IF InfoIsNil(stat) THEN "panicked"
    ELSE IF stat # "dir" THEN "med_err"
    ELSE "med_nil"

\* if err = os.MkdirAll(...); err != nil { return err }; return nil
AfterMkdirAll(ok) == IF ok THEN "med_nil" ELSE "med_err"

\* WriteFile: if err := MakeEnclosingDirectories(...); err != nil { return errors.Wrap(...) }
AfterEnclosing(op, medResult) ==
    IF op = "MakeEnclosingDirectories" THEN "done"
    ELSE IF medResult = "err" THEN "done" ELSE "create"

\* file, err := os.Create(path); if err != nil { return err }
AfterCreate(ok) == IF ok THEN "copy" ELSE "done"

FilesInit ==
    /\ QueueInit
    /\ rb = RbIdle
    /\ ad = AdIdle
    /\ gr = GrIdle
    /\ fs \in [pc : {"stat"},
               op : {"MakeEnclosingDirectories", "WriteFile"},
               stat : StatOutcomes,
               mkdirOK : BOOLEAN, createOK : BOOLEAN, copyOK : BOOLEAN,
               ret : {"none"}, dirMade : {FALSE}, fileCreated : {FALSE}]

\* info, err := os.Stat(path) and the branch on it
FsStat ==
    /\ fs.pc = "stat"
    /\ fs' = [fs EXCEPT !.pc = AfterStat(fs.stat)]
    /\ UNCHANGED <<queueVars, rb, ad, gr>>

\* os.MkdirAll(path, os.ModeDir|os.ModePerm)
FsMkdirAll ==
    /\ fs.pc = "mkdir"
    /\ fs' = [fs EXCEPT !.pc = AfterMkdirAll(fs.mkdirOK), !.dirMade = fs.mkdirOK]
    /\ UNCHANGED <<queueVars, rb, ad, gr>>

\* MakeEnclosingDirectories returns, to its caller or into WriteFile
FsEnclosingReturns ==
    /\ fs.pc \in {"med_nil", "med_err"}
    /\ LET r == IF fs.pc = "med_nil" THEN "nil" ELSE "err"
           to == AfterEnclosing(fs.op, r) IN
        fs' = [fs EXCEPT !.pc = to, !.ret = IF to = "done" THEN r ELSE "none"]
    /\ UNCHANGED <<queueVars, rb, ad, gr>>

\* file, err := os.Create(path)
FsCreate ==
    /\ fs.pc = "create"
    /\ fs' = [fs EXCEPT !.pc = AfterCreate(fs.createOK),
                        !.fileCreated = fs.createOK,
                        !.ret = IF fs.createOK THEN "none" ELSE "err"]
    /\ UNCHANGED <<queueVars, rb, ad, gr>>

\* if _, err := io.Copy(file, reader); err != nil { return err }; return nil
FsCopy ==
    /\ fs.pc = "copy"
    /\ fs' = [fs EXCEPT !.pc = "done", !.ret = IF fs.copyOK THEN "nil" ELSE "err"]
    /\ UNCHANGED <<queueVars, rb, ad, gr>>

FilesNext == FsStat \/ FsMkdirAll \/ FsEnclosingReturns \/ FsCreate \/ FsCopy

SpecFiles == FilesInit /\ [][FilesNext]_vars

\* C11 (as claimed): a file helper never aborts, a finished call has returned
\* nil or an error, and WriteFile creates no file unless the enclosing
\* directory existed or was made.
FileHelpersNeverAbort ==
    /\ fs.pc # "panicked"
    /\ fs.pc = "done" => fs.ret \in {"nil", "err"}
    /\ fs.fileCreated => (fs.stat = "dir" \/ fs.dirMade)

\* ============================================================ rebuildRepo
\* BuildDEBRepoJob.rebuildRepo, started as one goroutine per working
\* directory of a job; the goroutines share the job's mutex, its Output map
\* and its error aggregator.

\* The statements of rebuildRepo that do something, in program order.
RebuildSteps ==
    <<"scan", "writePackages", "gzipPackages", "lookupTemplate", "parseTemplate",
      "renderTemplate", "ftparchive", "lock", "record", "unlock",
      "writeRelease", "sign", "index">>

\* j.mutex.Lock(), the map write and j.mutex.Unlock() have no error to return.
Fallible(step) == step \notin {"lock", "record", "unlock"}

StepIndex(step) == CHOOSE i \in 1..Len(RebuildSteps) : RebuildSteps[i] = step

\* (mutation: the mutex is released only after the Release file is written)
StepAfterWideLock(step) ==
    CASE step = "record" -> "writeRelease"
      [] step = "writeRelease" -> "unlock"
      [] step = "unlock" -> "sign"
      [] step = "index" -> "deferred"
      [] OTHER -> RebuildSteps[StepIndex(step) + 1]

\* The statement that follows a statement that succeeded; after the last one
\* the function returns and the deferred wg.Done() runs.
StepAfter(step) ==
    IF StepIndex(step) = Len(RebuildSteps) THEN "deferred"
    ELSE RebuildSteps[StepIndex(step) + 1]

\* (mutation: the return after the failed write of the Release file is missing)
OnStepNoReturn(step, ok) ==
    IF ok \/ step = "writeRelease" THEN StepAfter(step) ELSE "deferred"

\* if err != nil { j.addError(...); return }
OnStep(step, ok) == IF ok THEN StepAfter(step) ELSE "deferred"

\* len(dirParts)-5, the low bound of dirParts[len(dirParts)-5:]
SliceIndex(nParts) == nParts - PathTail

\* A negative slice bound is a run-time panic.
AfterSplit(nParts) == IF SliceIndex(nParts) < 0 THEN "panicking" ELSE RebuildSteps[1]

\* An unrecovered panic in a goroutine ends the process.
ProcessAlive == \A g \in Dirs : rb.pc[g] # "panicked"

RebuildInit ==
    /\ QueueInit
    /\ fs = FsIdle
    /\ ad = AdIdle
    /\ gr = GrIdle
    /\ rb \in {[RbIdle EXCEPT !.pc = [g \in Dirs |-> "split"], !.parts = p] :
                 p \in [Dirs -> 1..MaxParts]}

\* dirParts := strings.Split(workingDir, "/"); dirParts[len(dirParts)-5:]
RbSplit(g) ==
    /\ ProcessAlive
    /\ rb.pc[g] = "split"
    /\ rb' = [rb EXCEPT !.pc[g] = AfterSplit(rb.parts[g])]
    /\ UNCHANGED <<queueVars, fs, ad, gr>>

\* A statement that can fail: on failure one error is added and the function returns.
RbStep(g) ==
    /\ ProcessAlive
    /\ rb.pc[g] \in {RebuildSteps[i] : i \in 1..Len(RebuildSteps)}
    /\ Fallible(rb.pc[g])
    /\ \E ok \in BOOLEAN :
        rb' = [rb EXCEPT !.pc[g] = OnStep(rb.pc[g], ok),
                         !.trace[g] = Append(@, rb.pc[g]),
                         !.failedAt[g] = IF ok THEN @ ELSE rb.pc[g],
                         !.errs[g] = IF ok THEN @ ELSE @ + 1]
    /\ UNCHANGED <<queueVars, fs, ad, gr>>

\* j.mutex.Lock(): waits while another goroutine holds the mutex.
RbLock(g) ==
    /\ ProcessAlive
    /\ rb.pc[g] = "lock"
    /\ rb.mutex = 0
    /\ rb' = [rb EXCEPT !.pc[g] = OnStep("lock", TRUE), !.mutex = g]
    /\ UNCHANGED <<queueVars, fs, ad, gr>>

\* j.Output["sign-release-file-"+workingDir] = outString
RbRecord(g) ==
    /\ ProcessAlive
    /\ rb.pc[g] = "record"
    /\ rb' = [rb EXCEPT !.pc[g] = OnStep("record", TRUE),
                        !.trace[g] = Append(@, "record"),
                        !.output = @ \cup {g}]
    /\ UNCHANGED <<queueVars, fs, ad, gr>>

\* j.mutex.Unlock()
RbUnlock(g) ==
    /\ ProcessAlive
    /\ rb.pc[g] = "unlock"
    /\ rb' = [rb EXCEPT !.pc[g] = OnStep("unlock", TRUE), !.mutex = 0]
    /\ UNCHANGED <<queueVars, fs, ad, gr>>

\* defer wg.Done(): runs when the function returns and when it panics.
RbDeferred(g) ==
    /\ ProcessAlive
    /\ rb.pc[g] \in {"deferred", "panicking"}
    /\ rb' = [rb EXCEPT !.pc[g] = IF rb.pc[g] = "deferred" THEN "done" ELSE "panicked",
                        !.wgDone[g] = @ + 1]
    /\ UNCHANGED <<queueVars, fs, ad, gr>>

RebuildNext ==
    \/ \E g \in Dirs : RbSplit(g)
    \/ \E g \in Dirs : RbStep(g)
    \/ \E g \in Dirs : RbLock(g)
    \/ \E g \in Dirs : RbRecord(g)
    \/ \E g \in Dirs : RbUnlock(g)
    \/ \E g \in Dirs : RbDeferred(g)

SpecRebuild == RebuildInit /\ [][RebuildNext]_vars

\* C12 (as claimed): rebuildRepo never panics, whatever the number of
\* components of workingDir; the slice bound len(dirParts)-5 is never negative
\* when it is used.
RebuildNeverPanics ==
    \A g \in Dirs :
        /\ rb.pc[g] \notin {"panicking", "panicked"}
        /\ rb.pc[g] \notin {"idle", "split"} => SliceIndex(rb.parts[g]) >= 0

\* C13: the job's mutex is held by a goroutine only while it is at the write
\* of j.Output or at the Unlock that follows; never during a command, a file
\* write, signing or index building, nor after the function has ended; and no
\* two goroutines are at the write of j.Output together.
MutexScopedToMapWrite ==
    /\ \A g \in Dirs : rb.mutex = g => rb.pc[g] \in {"record", "unlock"}
    /\ \A g \in Dirs : rb.pc[g] \in {"record", "unlock"} => rb.mutex = g
    /\ \A g1, g2 \in Dirs : (rb.pc[g1] = "record" /\ rb.pc[g2] = "record") => g1 = g2

\* C13 witness: one goroutine is writing j.Output under the mutex while
\* another one waits in Lock.
WriterAndWaiter ==
    \E g1, g2 \in Dirs :
        /\ rb.pc[g1] = "record" /\ rb.mutex = g1
        /\ rb.pc[g2] = "lock"

\* The order of the steps as the claim lists them.
ClaimedOrder ==
    <<"scan", "writePackages", "gzipPackages", "lookupTemplate", "parseTemplate",
      "renderTemplate", "ftparchive", "record", "writeRelease", "sign", "index">>

\* C14: the steps run in the claimed order; a failing step adds exactly one
\* error and is the last step run; without a failure no error is added and,
\* at the end, every step has run; Release is signed only after it was
\* written; wg.Done is called once, when the function ends.
FailFastInOrder ==
    \A g \in Dirs :
        LET t == rb.trace[g] IN
        /\ Len(t) <= Len(ClaimedOrder)
        /\ \A i \in 1..Len(t) : t[i] = ClaimedOrder[i]
        /\ rb.failedAt[g] # "none" =>
              /\ rb.errs[g] = 1
              /\ t # <<>> /\ t[Len(t)] = rb.failedAt[g]
              /\ rb.pc[g] \in {"deferred", "done"}
        /\ rb.failedAt[g] = "none" =>
              /\ rb.errs[g] = 0
              /\ rb.pc[g] = "done" => t = ClaimedOrder
        /\ (\E i \in 1..Len(t) : t[i] = "sign") =>
              (\E k \in 1..Len(t) : t[k] = "writeRelease") /\ rb.failedAt[g] # "writeRelease"
        /\ rb.wgDone[g] = IF rb.pc[g] \in {"done", "panicked"} THEN 1 ELSE 0

\* C14 witness: one call has ended at a failed signing, with one error, and
\* another has ended with every step done and no error.
OneFailedOneComplete ==
    \E g1, g2 \in Dirs :
        /\ rb.pc[g1] = "done" /\ rb.failedAt[g1] = "sign" /\ rb.errs[g1] = 1
        /\ rb.pc[g2] = "done" /\ rb.failedAt[g2] = "none" /\ rb.trace[g2] = ClaimedOrder

\* ========================================================= createArchDirs
\* BuildDEBRepoJob.createArchDirs: one binary-<arch> directory per
\* architecture of the distro, with empty Packages and Packages.gz files.

\* j.Distro.Architectures, in order.
Archs == 1..NumArchs

\* Where gzipAndWriteToFile can fail: creating the writer, writing, closing,
\* writing the file; or nowhere.
GzipFailures == {"none", "level", "write", "close", "file"}

\* gzipAndWriteToFile: an error from the first failing call, nil after the file is written.
GzipAndWriteToFile(failure) == [ok |-> failure = "none", wrote |-> failure = "none"]

\* catcher.Add(err): a nil error is not counted.
CatcherAdd(n, ok) == IF ok THEN n ELSE n + 1

\* catcher.Resolve(): nil when nothing was added.
CatcherResolve(n) == IF n = 0 THEN "nil" ELSE "err"

\* if _, err := os.Stat(path); os.IsNotExist(err) { ... }
ArchAfterStat(stat) == IF IsNotExist(stat) THEN "mkdir" ELSE "next"

\* (mutation: a failed MkdirAll ends the loop)
ArchOnMkdirReturns(ok) == IF ok THEN "packages" ELSE "resolve"

\* err = os.MkdirAll(path, 0755); if err != nil { catcher.Add(err); continue }
ArchOnMkdir(ok) == IF ok THEN "packages" ELSE "next"

\* err = ioutil.WriteFile(.../Packages); if err != nil { catcher.Add(err); continue }
ArchOnPackages(ok) == IF ok THEN "gz" ELSE "next"

\* A filesystem call of createArchDirs, as it is logged.
ArchCall(a, op, ok, res) == [arch |-> a, op |-> op, ok |-> ok, res |-> res]

\* The position after a step: the next architecture, the end of the loop, or
\* the next statement of the body.
ArchGoto(st, to) ==
    IF to # "next" THEN [st EXCEPT !.pc = to]
    ELSE IF st.i = NumArchs THEN [st EXCEPT !.pc = "resolve"]
    ELSE [st EXCEPT !.pc = "stat", !.i = @ + 1]

ArchInit ==
    /\ QueueInit
    /\ fs = FsIdle
    /\ rb = RbIdle
    /\ gr = GrIdle
    /\ ad = [AdIdle EXCEPT !.pc = "stat", !.i = 1]

\* for _, arch := range ...: os.Stat(path)
AdStat ==
    /\ ad.pc = "stat"
    /\ \E stat \in StatOutcomes :
        ad' = ArchGoto([ad EXCEPT !.log = Append(@, ArchCall(ad.i, "stat", TRUE, stat))],
                       ArchAfterStat(stat))
    /\ UNCHANGED <<queueVars, fs, rb, gr>>

\* os.MkdirAll(path, 0755)
AdMkdir ==
    /\ ad.pc = "mkdir"
    /\ \E ok \in BOOLEAN :
        ad' = ArchGoto([ad EXCEPT !.log = Append(@, ArchCall(ad.i, "mkdir", ok, "")),
                                  !.errors = CatcherAdd(@, ok)],
                       ArchOnMkdir(ok))
    /\ UNCHANGED <<queueVars, fs, rb, gr>>

\* ioutil.WriteFile(filepath.Join(path, "Packages"), []byte(""), 0644)
AdPackages ==
    /\ ad.pc = "packages"
    /\ \E ok \in BOOLEAN :
        ad' = ArchGoto([ad EXCEPT !.log = Append(@, ArchCall(ad.i, "packages", ok, "")),
                                  !.errors = CatcherAdd(@, ok)],
                       ArchOnPackages(ok))
    /\ UNCHANGED <<queueVars, fs, rb, gr>>

\* catcher.Add(gzipAndWriteToFile(filepath.Join(path, "Packages.gz"), []byte("")))
AdGz ==
    /\ ad.pc = "gz"
    /\ \E f \in GzipFailures :
        LET r == GzipAndWriteToFile(f) IN
        ad' = ArchGoto([ad EXCEPT !.log = Append(@, ArchCall(ad.i, "gz", r.ok, f)),
                                  !.errors = CatcherAdd(@, r.ok)],
                       "next")
    /\ UNCHANGED <<queueVars, fs, rb, gr>>

\* return catcher.Resolve()
AdResolve ==
    /\ ad.pc = "resolve"
    /\ ad' = [ad EXCEPT !.pc = "returned", !.ret = CatcherResolve(ad.errors)]
    /\ UNCHANGED <<queueVars, fs, rb, gr>>

ArchNext == AdStat \/ AdMkdir \/ AdPackages \/ AdGz \/ AdResolve

SpecArchDirs == ArchInit /\ [][ArchNext]_vars

\* The filesystem calls made for architecture a, in the order made.
ArchCallsOf(a) == SelectSeq(ad.log, LAMBDA e : e.arch = a)

\* C15: for every architecture the calls are Stat, then (only for a missing
\* directory) MkdirAll, Packages, Packages.gz, each only after the one before
\* succeeded; when createArchDirs has returned, every architecture was
\* visited and taken as far as its first failure, and the result is an error
\* exactly when one of those steps failed.
ContinuesPastFailures ==
    /\ \A a \in Archs :
        LET t == ArchCallsOf(a) IN
        /\ Len(t) <= 4
        /\ Len(t) >= 1 => t[1].op = "stat"
        /\ Len(t) >= 2 => t[1].res = "notexist" /\ t[2].op = "mkdir"
        /\ Len(t) >= 3 => t[2].ok /\ t[3].op = "packages"
        /\ Len(t) >= 4 => t[3].ok /\ t[4].op = "gz"
        /\ ad.pc = "returned" =>
              /\ Len(t) >= 1
              /\ Len(t) = 1 => t[1].res # "notexist"
              /\ Len(t) = 2 => ~t[2].ok
              /\ Len(t) = 3 => ~t[3].ok
    /\ \A k \in 1..Len(ad.log) : k > 1 => ad.log[k].arch >= ad.log[k - 1].arch
    /\ ad.pc = "returned" =>
          (ad.ret = "err" <=> \E k \in 1..Len(ad.log) : ~ad.log[k].ok)
    /\ ad.pc = "returned" => ad.ret \in {"nil", "err"}

\* C15 witness: the call has returned an error after a step failed for the
\* first architecture, and the last architecture was still set up in full.
LaterArchDoneAfterFailure ==
    /\ ad.pc = "returned" /\ ad.ret = "err"
    /\ \E k \in 1..Len(ad.log) : ad.log[k].arch = 1 /\ ~ad.log[k].ok
    /\ Len(ArchCallsOf(NumArchs)) = 4 /\ ArchCallsOf(NumArchs)[4].ok

\* ========================================================= poplar gRPC action
\* The Action of the poplar grpc command: listen, build the server, start the
\* signal listener, Serve and the waiting goroutine, block on wait.

\* lis, err := net.Listen(...); if err != nil { return errors.WithStack(err) }
OnListen(ok) == IF ok THEN "attach" ELSE "return_err"

\* if err = rpc.AttachService(registry, rpcSrv); err != nil { return errors.Wrap(...) }
OnAttach(ok) == IF ok THEN "go_signal" ELSE "return_err"

\* (mutation: the waiting goroutine does not wait for the context)
CtxDoneAlways(ctxCancelled) == TRUE

\* <-ctx.Done() is ready once the context has been cancelled.
CtxDone(ctxCancelled) == ctxCancelled

\* <-wait is ready once close(wait) has run.
WaitReady(closed) == closed

PoplarInit ==
    /\ QueueInit
    /\ fs = FsIdle
    /\ rb = RbIdle
    /\ ad = AdIdle
    /\ gr = [GrIdle EXCEPT !.pc = "listen"]

\* net.Listen("tcp", addr)
GrListen ==
    /\ gr.pc = "listen"
    /\ \E ok \in BOOLEAN :
        gr' = [gr EXCEPT !.pc = OnListen(ok), !.listening = ok]
    /\ UNCHANGED <<queueVars, fs, rb, ad>>

\* rpcSrv := grpc.NewServer()
GrNewServer ==
    /\ gr.pc = "attach"
    /\ ~gr.created
    /\ gr' = [gr EXCEPT !.created = TRUE]
    /\ UNCHANGED <<queueVars, fs, rb, ad>>

\* rpc.AttachService(registry, rpcSrv)
GrAttach ==
    /\ gr.pc = "attach"
    /\ gr.created
    /\ \E ok \in BOOLEAN :
        gr' = [gr EXCEPT !.pc = OnAttach(ok)]
    /\ UNCHANGED <<queueVars, fs, rb, ad>>

\* return errors.WithStack(err) / return errors.Wrap(err, ...)
GrReturnErr ==
    /\ gr.pc = "return_err"
    /\ gr' = [gr EXCEPT !.pc = "deferred", !.ret = "err"]
    /\ UNCHANGED <<queueVars, fs, rb, ad>>

\* go signalListener(ctx, cancel)
GrGoSignal ==
    /\ gr.pc = "go_signal"
    /\ gr' = [gr EXCEPT !.pc = "go_serve", !.sig = "listening"]
    /\ UNCHANGED <<queueVars, fs, rb, ad>>

\* go func() { grip.Warning(rpcSrv.Serve(lis)) }()
GrGoServe ==
    /\ gr.pc = "go_serve"
    /\ gr' = [gr EXCEPT !.pc = "go_waiter", !.serve = "spawned"]
    /\ UNCHANGED <<queueVars, fs, rb, ad>>

\* wait := make(chan struct{}); go func() { ... }()
GrGoWaiter ==
    /\ gr.pc = "go_waiter"
    /\ gr' = [gr EXCEPT !.pc = "wait", !.waiter = "await"]
    /\ UNCHANGED <<queueVars, fs, rb, ad>>

\* <-wait; return nil
GrReturnNil ==
    /\ gr.pc = "wait"
    /\ WaitReady(gr.waitClosed)
    /\ gr' = [gr EXCEPT !.pc = "deferred", !.ret = "nil"]
    /\ UNCHANGED <<queueVars, fs, rb, ad>>

\* defer cancel()
GrDeferredCancel ==
    /\ gr.pc = "deferred"
    /\ gr' = [gr EXCEPT !.pc = "returned", !.cancelled = TRUE]
    /\ UNCHANGED <<queueVars, fs, rb, ad>>

\* signalListener: a termination signal is delivered to the process.
GrSignal ==
    /\ gr.sig = "listening"
    /\ gr' = [gr EXCEPT !.sig = "signalled"]
    /\ UNCHANGED <<queueVars, fs, rb, ad>>

\* signalListener: it calls the cancel function it was given and returns.
GrSignalCancel ==
    /\ gr.sig = "signalled"
    /\ gr' = [gr EXCEPT !.sig = "done", !.cancelled = TRUE]
    /\ UNCHANGED <<queueVars, fs, rb, ad>>

\* rpcSrv.Serve(lis) starts accepting, or returns at once after Stop.
GrServeStart ==
    /\ gr.serve = "spawned"
    /\ gr' = [gr EXCEPT !.serve = IF gr.stopCalled THEN "stopped" ELSE "serving"]
    /\ UNCHANGED <<queueVars, fs, rb, ad>>

\* rpcSrv.Serve(lis) returns with an error of its own; grip.Warning logs it.
GrServeFails ==
    /\ gr.serve = "serving"
    /\ gr' = [gr EXCEPT !.serve = "failed"]
    /\ UNCHANGED <<queueVars, fs, rb, ad>>

\* rpcSrv.Serve(lis) returns because of Stop.
GrServeStopped ==
    /\ gr.serve = "serving"
    /\ gr.stopCalled
    /\ gr' = [gr EXCEPT !.serve = "stopped"]
    /\ UNCHANGED <<queueVars, fs, rb, ad>>

\* grip.Warning(...) logs what Serve returned and the goroutine ends.
GrServeLogged ==
    /\ gr.serve \in {"failed", "stopped"}
    /\ ~gr.serveLogged
    /\ gr' = [gr EXCEPT !.serveLogged = TRUE]
    /\ UNCHANGED <<queueVars, fs, rb, ad>>

\* <-ctx.Done()
GrAwaitDone ==
    /\ gr.waiter = "await"
    /\ CtxDone(gr.cancelled)
    /\ gr' = [gr EXCEPT !.waiter = "stop"]
    /\ UNCHANGED <<queueVars, fs, rb, ad>>

\* rpcSrv.Stop(), which returns or panics.
GrStop ==
    /\ gr.waiter = "stop"
    /\ \E panics \in BOOLEAN :
        gr' = [gr EXCEPT !.waiter = IF panics THEN "recover" ELSE "info",
                         !.stopCalled = TRUE, !.stopPanicked = panics]
    /\ UNCHANGED <<queueVars, fs, rb, ad>>

\* grip.Info("poplar rpc service terminated"), or the deferred
\* recovery.LogStackTraceAndContinue after a panic.
GrInfoOrRecover ==
    /\ gr.waiter \in {"info", "recover"}
    /\ gr' = [gr EXCEPT !.waiter = "close"]
    /\ UNCHANGED <<queueVars, fs, rb, ad>>

\* defer close(wait)
GrCloseWait ==
    /\ gr.waiter = "close"
    /\ gr' = [gr EXCEPT !.waiter = "done", !.waitClosed = TRUE]
    /\ UNCHANGED <<queueVars, fs, rb, ad>>

PoplarNext ==
    \/ GrListen
    \/ GrNewServer
    \/ GrAttach
    \/ GrReturnErr
    \/ GrGoSignal
    \/ GrGoServe
    \/ GrGoWaiter
    \/ GrReturnNil
    \/ GrDeferredCancel
    \/ GrSignal
    \/ GrSignalCancel
    \/ GrServeStart
    \/ GrServeFails
    \/ GrServeStopped
    \/ GrServeLogged
    \/ GrAwaitDone
    \/ GrStop
    \/ GrInfoOrRecover
    \/ GrCloseWait

SpecPoplar == PoplarInit /\ [][PoplarNext]_vars

\* Serve has been called on the server.
ServeCalled == gr.serve # "none"

\* The action has evaluated its return statement.
GrReturned == gr.ret # "none"

====
